---- MODULE Spec2Model ----
(***************************************************************************)
(* Verification model of johnazariah/encodings:                            *)
(*   scripts/inject_pages_runtime.py  (HTML post-processing)               *)
(*   .research/tools/compute_K01.py   (H2 / STO-3G integral engine)        *)
(*                                                                         *)
(* File contents are sequences of tokens [t |-> kind, n |-> characters].   *)
(* Real numbers are modelled exactly: rationals are records                *)
(* [n |-> numerator, d |-> denominator] in lowest terms, and the values of *)
(* exp, erf and irrational square roots are kept as symbolic terms.        *)
(***************************************************************************)
EXTENDS Integers, Sequences, FiniteSets, Bags, TLC

VARIABLES
    \* ---- inject_runtime called repeatedly on one file (SpecInject)
    content,      \* the file's text
    initial,      \* the text before the first call
    prev,         \* the text before the latest call
    calls,        \* number of inject_runtime calls made
    ret,          \* return value of the latest call
    \* ---- main() over a directory tree (SpecMain)
    docs_exists,  \* Path("docs-output").exists()
    files,        \* path -> text, the file system
    files0,       \* the file system before main started
    todo,         \* html files rglob has still to yield
    changed,      \* main's counter
    rewritten,    \* paths on which write_text was called
    retlog,       \* path -> return value of inject_runtime on it
    reported,     \* the number main printed (-1: nothing printed)
    mpc,          \* main's position: "start", "loop", "done", "exit"
    \* ---- the energy solver of compute_K01.py (SpecFCI, SpecMO)
    h_mo,         \* one-electron MO matrix, h_mo[p][q]
    mo_eri,       \* two-electron MO tensor, mo_eri[<<p, q, r, s>>]
    V_nn,         \* nuclear repulsion
    E_HF_elec, E_HF_total,
    diag_00, diag_11, off_diag, avg, diff,
    E_FCI_elec, E_FCI_total,
    fpc,          \* position: "hf", "fci", "done"
    \* ---- one run of the compute_K01.py script (Spec)
    pc,           \* the statement group about to run
    it,           \* iterations of the current loop already run
    wcount,       \* name -> assignments made to it (whole or element) so far
    readers,      \* names a later statement group has read
    lastReads,    \* names the latest step read from earlier statement groups
    jt,           \* iterations of the current inner loop already run
    R_bohr, A, B, \* the geometry
    \* ---- the integral engine on a given basis and geometry (SpecAO, SpecMO)
    alpha,        \* primitive exponents
    centers_list, \* the two centers
    ao_eri_tensor,\* two-electron AO tensor, ao_eri_tensor[<<mu, nu, lam, sig>>]
    h_ao,         \* one-electron AO matrix, h_ao[i][j]
    C,            \* MO coefficient matrix, C[ao][mo]
    boys_log,     \* the boys_F0 calls of the latest step: argument and result
    len_exp,      \* centers_list holds lengths in units of 10^-len_exp bohr
    eri_named,    \* eri_AAAA, eri_BBBB, eri_AABB, eri_ABAB, eri_ABBA
    apc,          \* position in the engine
    ait,          \* elements of the tensor or matrix being filled that are set
    S_AB,         \* the contracted overlap
    norm_g,       \* 1 / sqrt(2 + 2 * S_AB)
    norm_u,       \* 1 / sqrt(2 - 2 * S_AB)
    eri_back,     \* mo_eri transformed with the inverse of C
    h_back,       \* h_mo transformed with the inverse of C
    rpc           \* position in the round trip

injVars  == <<content, initial, prev, calls, ret>>
mainVars == <<docs_exists, files, files0, todo, changed, rewritten, retlog, reported, mpc>>
moOutVars == <<h_mo, mo_eri>>
fciRest  == <<E_HF_elec, E_HF_total, diag_00, diag_11, off_diag, avg, diff,
              E_FCI_elec, E_FCI_total, fpc>>
fciVars  == <<V_nn, fciRest>>
runVars  == <<pc, it, jt, wcount, readers, lastReads, R_bohr, A, B>>
aoVars   == <<alpha, centers_list, ao_eri_tensor, h_ao, C, boys_log, len_exp, eri_named, apc, ait>>
aoRest   == <<alpha, centers_list, boys_log, len_exp, eri_named, apc, ait>>
roundVars == <<S_AB, norm_g, norm_u, eri_back, h_back, rpc>>
vars     == <<injVars, mainVars, moOutVars, fciVars, runVars, aoVars, roundVars>>

notInj   == <<mainVars, moOutVars, fciVars, runVars, aoVars, roundVars>>
notMain  == <<injVars, moOutVars, fciVars, runVars, aoVars, roundVars>>
notFci   == <<injVars, mainVars, runVars, aoVars, roundVars>>
notRun   == <<injVars, mainVars, moOutVars, fciRest, aoVars, roundVars>>
notAo    == <<injVars, mainVars, fciVars, runVars, eri_back, h_back, rpc,
              alpha, len_exp>>
notRound == <<injVars, mainVars, fciVars, runVars, aoRest>>

(***************************************************************************)
(* Bounds of the model.                                                    *)
(***************************************************************************)
MaxLen   == 3     \* tokens in the file inject_runtime is called on
MaxCalls == 3     \* successive inject_runtime calls on that file
MainLen  == 2     \* tokens in each html file of the directory main walks

(***************************************************************************)
(*                       scripts/inject_pages_runtime.py                   *)
(***************************************************************************)
Tok(k, len) == [t |-> k, n |-> len]

MarkerLen == 30
HeadLen   == 7
JsLen     == 1289

\* "<!-- fockmap-pages-runtime -->"
RUNTIME_MARKER == Tok("marker", MarkerLen)

\* placeholder text -> replacement url, in dictionary order
PLACEHOLDER_REPLACEMENTS ==
    << <<Tok("{{fsdocs-license-link}}", 23),       Tok("url-license", 58)>>,
       <<Tok("{{fsdocs-release-notes-link}}", 29), Tok("url-changelog", 63)>>,
       <<Tok("{{fsdocs-repository-link}}", 26),    Tok("url-repository", 40)>> >>

Placeholders == {PLACEHOLDER_REPLACEMENTS[i][1] : i \in 1..Len(PLACEHOLDER_REPLACEMENTS)}

\* four spaces, the marker comment, then the script elements up to the final newline
RUNTIME_SNIPPET == <<Tok("x", 4), RUNTIME_MARKER, Tok("script", JsLen)>>

\* "</head>" and "</HEAD>" (any capitalisation other than all lower case)
HeadLower == Tok("</head>", HeadLen)
HeadUpper == Tok("</HEAD>", HeadLen)

\* an ordinary character; U+0130, the one character str.lower() lengthens
Char  == Tok("x", 1)
IDot  == Tok("U+0130", 1)

RECURSIVE CharLen(_)
CharLen(s) == IF s = <<>> THEN 0 ELSE Head(s).n + CharLen(Tail(s))

\* str.lower() of one token
LowerTok(tok) ==
    CASE tok = HeadUpper       -> HeadLower
      [] tok = IDot            -> Tok("x", 2)
      [] tok.t = "url-license" -> Tok("url-license-lower", tok.n)
      [] tok.t = "url-changelog" -> Tok("url-changelog-lower", tok.n)
      [] tok.t = "script"      -> Tok("script-lower", tok.n)
      [] OTHER                 -> tok

\* content.lower()
Lower(s) == [i \in 1..Len(s) |-> LowerTok(s[i])]

\* needle in content
Contains(s, needle) == \E i \in 1..Len(s) : s[i] = needle

\* content.replace(old, new)
Replace(s, old, new) == [i \in 1..Len(s) |-> IF s[i] = old THEN new ELSE s[i]]

\* s.find(needle): character offset of the first occurrence, -1 when absent
Find(s, needle) ==
    IF Contains(s, needle)
    THEN LET i == CHOOSE j \in 1..Len(s) :
                     s[j] = needle /\ \A k \in 1..(j - 1) : s[k] # needle
         IN  CharLen(SubSeq(s, 1, i - 1))
    ELSE -1

\* s[:k] and s[k:] for a character offset k >= 0; a token cut in two is
\* left as two runs of ordinary characters
RECURSIVE SliceTo(_, _)
SliceTo(s, k) ==
    IF s = <<>> \/ k <= 0 THEN <<>>
    ELSE IF Head(s).n <= k THEN <<Head(s)>> \o SliceTo(Tail(s), k - Head(s).n)
    ELSE <<Tok("x", k)>>

RECURSIVE SliceFrom(_, _)
SliceFrom(s, k) ==
    IF s = <<>> \/ k <= 0 THEN s
    ELSE IF Head(s).n <= k THEN SliceFrom(Tail(s), k - Head(s).n)
    ELSE <<Tok("x", Head(s).n - k)>> \o Tail(s)

\* the loop over PLACEHOLDER_REPLACEMENTS.items()
RECURSIVE ReplacePlaceholders(_, _, _)
ReplacePlaceholders(s, chg, i) ==
    IF i > Len(PLACEHOLDER_REPLACEMENTS) THEN [content |-> s, changed |-> chg]
    ELSE LET placeholder == PLACEHOLDER_REPLACEMENTS[i][1]
             value       == PLACEHOLDER_REPLACEMENTS[i][2]
         IN  IF Contains(s, placeholder)
             THEN ReplacePlaceholders(Replace(s, placeholder, value), TRUE, i + 1)
             ELSE ReplacePlaceholders(s, chg, i + 1)

HeadClose(s) == Find(Lower(s), HeadLower)

\* content[:head_close] + RUNTIME_SNIPPET + "\n" + content[head_close:]
Updated(s, head_close) ==
    SliceTo(s, head_close) \o RUNTIME_SNIPPET \o <<Char>> \o SliceFrom(s, head_close)

\* inject_runtime on a file holding text s: the text the file holds afterwards,
\* the value returned, and whether write_text was called
\* inject_runtime without the write on the marker path
inject_runtime_marker_no_write(s) ==
    LET r          == ReplacePlaceholders(s, FALSE, 1)
        head_close == HeadClose(r.content)
    IN  IF Contains(r.content, RUNTIME_MARKER)
        THEN [content |-> r.content, ret |-> r.changed, wrote |-> FALSE]
        ELSE IF head_close = -1
        THEN [content |-> r.content, ret |-> r.changed, wrote |-> r.changed]
        ELSE [content |-> Updated(r.content, head_close), ret |-> TRUE, wrote |-> TRUE]

inject_runtime(s) ==
    LET r          == ReplacePlaceholders(s, FALSE, 1)
        head_close == HeadClose(r.content)
    IN  IF Contains(r.content, RUNTIME_MARKER)
        THEN [content |-> r.content, ret |-> r.changed, wrote |-> r.changed]
        ELSE IF head_close = -1
        THEN [content |-> r.content, ret |-> r.changed, wrote |-> r.changed]
        ELSE [content |-> Updated(r.content, head_close), ret |-> TRUE, wrote |-> TRUE]

\* what html_path holds after the call
FileAfter(s) == LET r == inject_runtime(s) IN IF r.wrote THEN r.content ELSE s

(***************************************************************************)
(* File texts the model starts from.                                       *)
(***************************************************************************)
Alphabet == {Char, IDot, HeadLower, HeadUpper, RUNTIME_MARKER} \cup Placeholders

SeqsUpTo(S, n) == UNION {[1..k -> S] : k \in 0..n}

Texts == SeqsUpTo(Alphabet, MaxLen)

(***************************************************************************)
(* SpecInject: inject_runtime called again and again on one file.          *)
(***************************************************************************)
InjIdle ==
    /\ content = <<>> /\ initial = <<>> /\ prev = <<>> /\ calls = 0 /\ ret = FALSE

MainIdle ==
    /\ docs_exists = FALSE /\ files = <<>> /\ files0 = <<>> /\ todo = {}
    /\ changed = 0 /\ rewritten = {} /\ retlog = <<>> /\ reported = -1
    /\ mpc = "idle"

MoOutIdle == h_mo = <<>> /\ mo_eri = <<>>

FciIdle ==
    /\ V_nn = 0 /\ E_HF_elec = 0 /\ E_HF_total = 0 /\ diag_00 = 0 /\ diag_11 = 0
    /\ off_diag = 0 /\ avg = 0 /\ diff = 0 /\ E_FCI_elec = 0 /\ E_FCI_total = 0
    /\ fpc = "idle"

RunIdle ==
    /\ pc = "idle" /\ it = 0 /\ jt = 0 /\ wcount = <<>> /\ readers = {} /\ lastReads = {}
    /\ R_bohr = 0 /\ A = <<>> /\ B = <<>>

AoIdle ==
    /\ alpha = <<>> /\ centers_list = <<>> /\ ao_eri_tensor = <<>> /\ h_ao = <<>>
    /\ C = <<>> /\ boys_log = {} /\ len_exp = 0 /\ eri_named = <<>>
    /\ apc = "idle" /\ ait = 0

AoRestIdle ==
    /\ alpha = <<>> /\ centers_list = <<>> /\ boys_log = {} /\ len_exp = 0
    /\ eri_named = <<>> /\ apc = "idle" /\ ait = 0

RoundIdle ==
    /\ S_AB = <<>> /\ norm_g = <<>> /\ norm_u = <<>> /\ eri_back = <<>> /\ h_back = <<>>
    /\ rpc = "idle"

InitInject ==
    /\ content \in Texts
    /\ initial = content
    /\ prev = content
    /\ calls = 0
    /\ ret = FALSE
    /\ MainIdle /\ MoOutIdle /\ FciIdle /\ RunIdle /\ AoIdle /\ RoundIdle

CallInject ==
    /\ calls < MaxCalls
    /\ prev' = content
    /\ content' = FileAfter(content)
    /\ ret' = inject_runtime(content).ret
    /\ calls' = calls + 1
    /\ UNCHANGED <<initial, notInj>>

NextInject == CallInject

SpecInject == InitInject /\ [][NextInject]_vars

\* C9 (as claimed): once inject_runtime has run on a file, every further call
\* returns False and leaves the text unchanged; and a file that started without
\* the marker holds the snippet at most once, placed immediately before the
\* first "</head>" in any capitalisation, and holds no placeholder.
SnippetAt(s, i) ==
    /\ i >= 1
    /\ i + Len(RUNTIME_SNIPPET) <= Len(s)
    /\ SubSeq(s, i, i + Len(RUNTIME_SNIPPET)) = RUNTIME_SNIPPET \o <<Char>>

IsHeadClose(tok) == LowerTok(tok) = HeadLower

BeforeFirstHead(s, i) ==
    /\ i + Len(RUNTIME_SNIPPET) + 1 <= Len(s)
    /\ IsHeadClose(s[i + Len(RUNTIME_SNIPPET) + 1])
    /\ \A j \in 1..(i - 1) : ~IsHeadClose(s[j])

MarkerCount(s) == Cardinality({i \in 1..Len(s) : s[i] = RUNTIME_MARKER})

\* C9 (as claimed): after one call every further call returns False and leaves
\* the content unchanged; a file that initially lacked the marker holds the
\* snippet at most once, immediately before the first case-insensitive
\* </head>, and none of the placeholders.
C9_IdempotentBeforeHead ==
    /\ calls >= 2 => (ret = FALSE /\ content = prev)
    /\ (calls >= 1 /\ ~Contains(initial, RUNTIME_MARKER)) =>
          /\ MarkerCount(content) <= 1
          /\ \A i \in 1..Len(content) :
                 content[i] = RUNTIME_MARKER =>
                     SnippetAt(content, i - 1) /\ BeforeFirstHead(content, i - 1)
          /\ \A p \in Placeholders : ~Contains(content, p)

(***************************************************************************)
(* SpecMain: main() walking docs-output.                                   *)
(***************************************************************************)
Paths == {"docs-output/index.html", "docs-output/api/page.html",
          "docs-output/notes.txt", "README.html"}

\* paths below Path("docs-output"); paths matching "*.html"
UnderDocs == {"docs-output/index.html", "docs-output/api/page.html",
              "docs-output/notes.txt"}
HtmlNames == {"docs-output/index.html", "docs-output/api/page.html", "README.html"}

\* docs_output.rglob("*.html")
Rglob(fs) == {p \in DOMAIN fs : p \in UnderDocs /\ p \in HtmlNames}

MainAlphabet == {PLACEHOLDER_REPLACEMENTS[1][1], RUNTIME_MARKER, HeadLower}
MainTexts    == SeqsUpTo(MainAlphabet, MainLen)
OtherTexts   == {<<HeadLower>>, <<PLACEHOLDER_REPLACEMENTS[1][1]>>}

TextsFor(p) == IF p \in Rglob([q \in Paths |-> <<>>]) THEN MainTexts ELSE OtherTexts

InitMain ==
    /\ InjIdle /\ MoOutIdle /\ FciIdle /\ RunIdle /\ AoIdle /\ RoundIdle
    /\ docs_exists \in BOOLEAN
    /\ \E present \in SUBSET Paths :
          /\ ~docs_exists => present \cap UnderDocs = {}
          /\ files \in [present -> MainTexts \cup OtherTexts]
          /\ \A p \in present : files[p] \in TextsFor(p)
    /\ files0 = files
    /\ todo = {}
    /\ changed = 0
    /\ rewritten = {}
    /\ retlog = <<>>
    /\ reported = -1
    /\ mpc = "start"

\* if not docs_output.exists(): raise SystemExit(...)
MainExit ==
    /\ mpc = "start"
    /\ ~docs_exists
    /\ mpc' = "exit"
    /\ UNCHANGED <<docs_exists, files, files0, todo, changed, rewritten, retlog, reported, notMain>>

\* changed = 0; the rglob iteration starts
MainBegin ==
    /\ mpc = "start"
    /\ docs_exists
    /\ changed' = 0
    /\ todo' = Rglob(files)
    /\ mpc' = "loop"
    /\ UNCHANGED <<docs_exists, files, files0, rewritten, retlog, reported, notMain>>

\* one iteration: if inject_runtime(html_file): changed += 1
MainVisit ==
    /\ mpc = "loop"
    /\ \E html_file \in todo :
          LET r == inject_runtime(files[html_file])
          IN  /\ files' = IF r.wrote THEN [files EXCEPT ![html_file] = r.content] ELSE files
              /\ rewritten' = IF r.wrote THEN rewritten \cup {html_file} ELSE rewritten
              /\ retlog' = (html_file :> r.ret) @@ retlog
              /\ changed' = IF r.ret THEN changed + 1 ELSE changed
              /\ todo' = todo \ {html_file}
    /\ UNCHANGED <<docs_exists, files0, reported, mpc, notMain>>

\* print(f"Injected runtime into {changed} HTML files")
MainPrintCount ==
    /\ mpc = "loop"
    /\ todo = {}
    /\ reported' = changed
    /\ mpc' = "done"
    /\ UNCHANGED <<docs_exists, files, files0, todo, changed, rewritten, retlog, notMain>>

NextMain == MainExit \/ MainBegin \/ MainVisit \/ MainPrintCount

SpecMain == InitMain /\ [][NextMain]_vars

HasPlaceholder(s) == \E p \in Placeholders : Contains(s, p)

\* C10: inject_runtime calls write_text exactly when it returns True, which is
\* exactly when a placeholder was replaced or the snippet inserted; a file it
\* returned False on, and every file it was not called on, is unchanged; main
\* prints the number of html files under docs-output that were rewritten, and
\* when docs-output is missing it exits with every file untouched.
C10_WriteIffTrue ==
    /\ \A f \in DOMAIN retlog :
          /\ retlog[f] <=> f \in rewritten
          /\ ~retlog[f] => files[f] = files0[f]
          /\ f \in rewritten <=>
                \/ HasPlaceholder(files0[f])
                \/ /\ ~Contains(files0[f], RUNTIME_MARKER)
                   /\ Contains(Lower(files0[f]), HeadLower)
    /\ rewritten \subseteq DOMAIN retlog
    /\ DOMAIN retlog \subseteq Rglob(files0)
    /\ \A f \in DOMAIN files : f \notin rewritten => files[f] = files0[f]
    /\ mpc = "done" =>
          /\ DOMAIN retlog = Rglob(files0)
          /\ reported = Cardinality(rewritten)
    /\ mpc # "done" => reported = -1
    /\ ~docs_exists => (mpc \in {"start", "exit"} /\ files = files0 /\ rewritten = {})
    /\ mpc = "exit" => ~docs_exists

C10_Witness ==
    /\ mpc = "done"
    /\ reported = 1
    /\ Cardinality(DOMAIN retlog) = 2
    /\ \E f \in DOMAIN retlog : ~retlog[f] /\ Contains(files0[f], RUNTIME_MARKER)
    /\ \E f \in DOMAIN files : f \notin DOMAIN retlog /\ HasPlaceholder(files[f])

(***************************************************************************)
(*                     .research/tools/compute_K01.py                      *)
(*                                                                         *)
(* Exact arithmetic.  A rational is [n |-> numerator, d |-> denominator]   *)
(* with d > 0 and gcd(n, d) = 1.                                           *)
(***************************************************************************)
Abs(x) == IF x < 0 THEN -x ELSE x

RECURSIVE GCD(_, _)
GCD(a, b) == IF b = 0 THEN a ELSE GCD(b, a % b)

Rat(n, d) ==
    LET g == GCD(Abs(n), Abs(d))
        s == IF d < 0 THEN -1 ELSE 1
    IN  [n |-> (s * n) \div g, d |-> (s * d) \div g]

Int2Rat(k) == [n |-> k, d |-> 1]
Zero == Int2Rat(0)
One  == Int2Rat(1)
Two  == Int2Rat(2)

RatNeg(x) == [n |-> -x.n, d |-> x.d]

RatAdd(x, y) ==
    IF x.n = 0 THEN y
    ELSE IF y.n = 0 THEN x
    ELSE LET g == GCD(x.d, y.d)
             l == (x.d \div g) * y.d
         IN  Rat(x.n * (l \div x.d) + y.n * (l \div y.d), l)

RatSub(x, y) == RatAdd(x, RatNeg(y))

RatMul(x, y) ==
    IF x.n = 0 \/ y.n = 0 THEN Zero
    ELSE LET g1 == GCD(Abs(x.n), y.d)
             g2 == GCD(Abs(y.n), x.d)
         IN  [n |-> (x.n \div g1) * (y.n \div g2), d |-> (x.d \div g2) * (y.d \div g1)]

\* 1 / x for x # 0
RatInv(x) == IF x.n > 0 THEN [n |-> x.d, d |-> x.n] ELSE [n |-> -x.d, d |-> -x.n]

RatDiv(x, y) == RatMul(x, RatInv(y))

RatLess(x, y) == RatSub(x, y).n < 0
RatLeq(x, y)  == RatSub(x, y).n <= 0
RatAbs(x)     == [n |-> Abs(x.n), d |-> x.d]

(***************************************************************************)
(* A real number r + s * sqrt(q), with r and q >= 0 rationals and s in     *)
(* {-1, 0, 1}: the values math.sqrt produces and sums with them.           *)
(***************************************************************************)
Surd(r, s, q) == [r |-> r, s |-> s, q |-> q]

\* math.sqrt(x)
Sqrt(x) == Surd(Zero, 1, x)

\* r - x and x + r for a rational r
RatMinusSurd(r, x) == Surd(RatSub(r, x.r), -x.s, x.q)
SurdPlusRat(x, r)  == Surd(RatAdd(x.r, r), x.s, x.q)

\* x < t and x <= t for a rational t
SurdLess(x, t) ==
    LET c == RatSub(t, x.r)
    IN  CASE x.s = 0  -> c.n > 0
          [] x.s = 1  -> c.n > 0 /\ RatLess(x.q, RatMul(c, c))
          [] x.s = -1 -> c.n > 0 \/ RatLess(RatMul(c, c), x.q)

SurdLeq(x, t) ==
    LET c == RatSub(t, x.r)
    IN  CASE x.s = 0  -> c.n >= 0
          [] x.s = 1  -> c.n >= 0 /\ RatLeq(x.q, RatMul(c, c))
          [] x.s = -1 -> c.n >= 0 \/ RatLeq(RatMul(c, c), x.q)

(***************************************************************************)
(* Energies (lines 297-310).                                               *)
(***************************************************************************)
\* E_HF_elec = 2.0 * h_mo[0,0] + mo_eri[0,0,0,0]
HFElec(h, eri) == RatAdd(RatMul(Two, h[0][0]), eri[<<0, 0, 0, 0>>])

\* diag_11 = 2.0 * h_mo[1,1] + mo_eri[1,1,1,1]
Diag11(h, eri) == RatAdd(RatMul(Two, h[1][1]), eri[<<1, 1, 1, 1>>])

\* off_diag = mo_eri[0,1,0,1]
OffDiag(eri) == eri[<<0, 1, 0, 1>>]

\* avg = (diag_00 + diag_11) / 2.0 ; diff = (diag_00 - diag_11) / 2.0
Avg(d0, d1)  == RatDiv(RatAdd(d0, d1), Two)
Diff(d0, d1) == RatDiv(RatSub(d0, d1), Two)

\* the upper root, avg + sqrt(diff**2 + off_diag**2)
FCIElec_upper_root(av, df, k) == Surd(av, 1, RatAdd(RatMul(df, df), RatMul(k, k)))

\* E_FCI_elec = avg - sqrt(diff**2 + off_diag**2)
FCIElec(av, df, k) == RatMinusSurd(av, Sqrt(RatAdd(RatMul(df, df), RatMul(k, k))))

(***************************************************************************)
(* SpecFCI: the energy solver applied to MO integrals.                     *)
(***************************************************************************)
FciMax == 2

Idx  == 0..1
Idx4 == Idx \X Idx \X Idx \X Idx

\* MO integrals of a two-orbital system: h_mo diagonal, the four exchange
\* elements of mo_eri equal
MoOneElectron(h00, h11) ==
    (0 :> (0 :> Int2Rat(h00) @@ 1 :> Zero)) @@ (1 :> (0 :> Zero @@ 1 :> Int2Rat(h11)))

MoTwoElectron(j00, j11, k) ==
    [t \in Idx4 |->
        IF t = <<0, 0, 0, 0>> THEN Int2Rat(j00)
        ELSE IF t = <<1, 1, 1, 1>> THEN Int2Rat(j11)
        ELSE IF t[1] # t[2] /\ t[3] # t[4] THEN Int2Rat(k)
        ELSE Zero]

InitFCI ==
    /\ InjIdle /\ MainIdle /\ RunIdle /\ AoIdle /\ RoundIdle
    /\ \E h00, h11, k \in -FciMax..FciMax, j00, j11 \in 0..FciMax :
          /\ h_mo = MoOneElectron(h00, h11)
          /\ mo_eri = MoTwoElectron(j00, j11, k)
    /\ \E r \in 1..(FciMax + 1) : V_nn = Rat(1, r)
    /\ E_HF_elec = Zero /\ E_HF_total = Zero
    /\ diag_00 = Zero /\ diag_11 = Zero /\ off_diag = Zero
    /\ avg = Zero /\ diff = Zero
    /\ E_FCI_elec = Sqrt(Zero) /\ E_FCI_total = Sqrt(Zero)
    /\ fpc = "hf"

\* lines 298-299
ComputeHF ==
    /\ fpc = "hf"
    /\ E_HF_elec' = HFElec(h_mo, mo_eri)
    /\ E_HF_total' = RatAdd(E_HF_elec', V_nn)
    /\ fpc' = "fci"
    /\ UNCHANGED <<h_mo, mo_eri, V_nn, diag_00, diag_11, off_diag, avg, diff,
                   E_FCI_elec, E_FCI_total, notFci>>

\* lines 304-310
ComputeFCI ==
    /\ fpc = "fci"
    /\ diag_00' = E_HF_elec
    /\ diag_11' = Diag11(h_mo, mo_eri)
    /\ off_diag' = OffDiag(mo_eri)
    /\ avg' = Avg(diag_00', diag_11')
    /\ diff' = Diff(diag_00', diag_11')
    /\ E_FCI_elec' = FCIElec(avg', diff', off_diag')
    /\ E_FCI_total' = SurdPlusRat(E_FCI_elec', V_nn)
    /\ fpc' = "done"
    /\ UNCHANGED <<h_mo, mo_eri, V_nn, E_HF_elec, E_HF_total, notFci>>

NextFCI == ComputeHF \/ ComputeFCI

SpecFCI == InitFCI /\ [][NextFCI]_vars

\* C3: the FCI total energy is strictly below the Hartree-Fock total energy
\* whenever the off-diagonal element K is nonzero, and never above it.
C3_FCIBelowHF ==
    fpc = "done" =>
        /\ off_diag # Zero => SurdLess(E_FCI_total, E_HF_total)
        /\ SurdLeq(E_FCI_total, E_HF_total)
        /\ diag_00 = E_HF_elec
        /\ E_HF_total = RatAdd(E_HF_elec, V_nn)

\* the case where the bonding configuration is the higher one and K couples them
C3_Witness ==
    /\ fpc = "done"
    /\ off_diag # Zero
    /\ RatLess(diag_11, diag_00)
    /\ SurdLess(E_FCI_total, E_HF_total)

(***************************************************************************)
(* Spec: one run of the script, statement group by statement group.  Each  *)
(* step records which earlier results it reads and which names it assigns; *)
(* the geometry (lines 56-78, 294) is computed exactly.                    *)
(***************************************************************************)
n_prim == 3      \* len(alpha)
n_ao   == 2      \* range(2): the two atomic orbitals

(***************************************************************************)
(* The geometry constants have 16 significant digits, so they are kept as  *)
(* exact fractions of natural numbers of any size: a natural number is a   *)
(* sequence of limbs in base 10000, least significant first, and a         *)
(* fraction is a record [n |-> numerator, d |-> denominator], d > 0.       *)
(***************************************************************************)
RECURSIVE BigNorm(_)
BigNorm(x) ==
    IF x # <<>> /\ x[Len(x)] = 0 THEN BigNorm(SubSeq(x, 1, Len(x) - 1)) ELSE x

RECURSIVE BigAddC(_, _, _)
BigAddC(x, y, c) ==
    IF x = <<>> /\ y = <<>> THEN (IF c = 0 THEN <<>> ELSE <<c>>)
    ELSE LET a == IF x = <<>> THEN 0 ELSE Head(x)
             b == IF y = <<>> THEN 0 ELSE Head(y)
             t == a + b + c
         IN  <<t % 10000>> \o BigAddC(IF x = <<>> THEN x ELSE Tail(x),
                                      IF y = <<>> THEN y ELSE Tail(y),
                                      t \div 10000)

BigAdd(x, y) == BigNorm(BigAddC(x, y, 0))

\* x * k + c for one limb k
RECURSIVE BigMulSmall(_, _, _)
BigMulSmall(x, k, c) ==
    IF x = <<>> THEN (IF c = 0 THEN <<>> ELSE <<c>>)
    ELSE LET t == Head(x) * k + c
         IN  <<t % 10000>> \o BigMulSmall(Tail(x), k, t \div 10000)

RECURSIVE BigMul(_, _)
BigMul(x, y) ==
    IF y = <<>> THEN <<>>
    ELSE BigAdd(BigMulSmall(x, Head(y), 0), <<0>> \o BigMul(x, Tail(y)))

RECURSIVE BigLess(_, _)
BigLess(x, y) ==
    IF Len(x) # Len(y) THEN Len(x) < Len(y)
    ELSE IF x = <<>> THEN FALSE
    ELSE IF x[Len(x)] # y[Len(y)] THEN x[Len(x)] < y[Len(y)]
    ELSE BigLess(SubSeq(x, 1, Len(x) - 1), SubSeq(y, 1, Len(y) - 1))

\* 10000^k
RECURSIVE BigPow(_)
BigPow(k) == IF k = 0 THEN <<1>> ELSE <<0>> \o BigPow(k - 1)

\* the decimal literal with the digits of limbs and 4 * k digits after the point
Decimal(limbs, k) == [n |-> BigNorm(limbs), d |-> BigPow(k)]

BigOne == Decimal(<<1>>, 0)

BigQMul(x, y) == [n |-> BigMul(x.n, y.n), d |-> BigMul(x.d, y.d)]
BigQInv(x)    == [n |-> x.d, d |-> x.n]
BigQDiv(x, y) == BigQMul(x, BigQInv(y))
BigQAdd(x, y) == [n |-> BigAdd(BigMul(x.n, y.d), BigMul(y.n, x.d)), d |-> BigMul(x.d, y.d)]
BigQLeq(x, y) == ~BigLess(BigMul(y.n, x.d), BigMul(x.n, y.d))

\* R_angstrom = 0.7414
R_angstrom == Decimal(<<7414>>, 1)

\* the literal 0.7151043390810812 of line 66
Vnn_reference == Decimal(<<812, 9081, 433, 7151>>, 4)

\* bohr_from_Vnn = 0.7151043390810812 * R_angstrom
bohr_from_Vnn == BigQMul(Vnn_reference, R_angstrom)

\* R_bohr = R_angstrom / bohr_from_Vnn
RBohr == BigQDiv(R_angstrom, bohr_from_Vnn)

AoIntegralNames == <<"eri_AAAA", "eri_BBBB", "eri_AABB", "eri_ABAB", "eri_ABBA">>

FciNames == {"diag_00", "diag_11", "off_diag", "avg", "diff", "E_FCI_elec", "E_FCI_total"}

Names == {"alpha", "coeff", "n_prim", "bohr_from_Vnn", "R_bohr", "A", "B",
          "S_AB", "norm_g", "norm_u", "C", "centers_list", "ao_eri_tensor",
          "mo_eri", "h_ao", "h_mo", "V_nn", "E_HF_elec", "E_HF_total"}
         \cup {AoIntegralNames[i] : i \in 1..Len(AoIntegralNames)} \cup FciNames

\* assignments that complete a name: the initialisation plus one per loop pass
Total(x) ==
    CASE x = "S_AB"          -> 1 + n_prim * n_prim
      [] x = "ao_eri_tensor" -> 1 + n_ao * n_ao * n_ao * n_ao
      [] x = "h_ao"          -> 1 + n_ao * n_ao
      [] OTHER               -> 1

Complete(x) == wcount[x] = Total(x)

\* a step that reads R (results of earlier statement groups) and assigns W
Track(R, W) ==
    /\ lastReads' = R
    /\ readers' = readers \cup R
    /\ wcount' = [x \in Names |-> IF x \in W THEN wcount[x] + 1 ELSE wcount[x]]
    /\ UNCHANGED notRun

Stmt(at, to, R, W) ==
    /\ pc = at
    /\ pc' = to
    /\ UNCHANGED <<it, jt>>
    /\ Track(R, W)

\* one pass of an n-pass loop
Pass(at, n, to, R, W) ==
    /\ pc = at
    /\ it < n
    /\ IF it + 1 = n THEN pc' = to /\ it' = 0 ELSE pc' = at /\ it' = it + 1
    /\ UNCHANGED jt
    /\ Track(R, W)

SameGeometry == UNCHANGED <<R_bohr, A, B, V_nn>>

Init ==
    /\ InjIdle /\ MainIdle /\ MoOutIdle /\ AoIdle /\ RoundIdle
    /\ E_HF_elec = 0 /\ E_HF_total = 0 /\ diag_00 = 0 /\ diag_11 = 0
    /\ off_diag = 0 /\ avg = 0 /\ diff = 0 /\ E_FCI_elec = 0 /\ E_FCI_total = 0
    /\ fpc = "idle"
    /\ pc = "alpha" /\ it = 0 /\ jt = 0
    /\ wcount = [x \in Names |-> 0]
    /\ readers = {} /\ lastReads = {}
    /\ R_bohr = Zero /\ A = <<>> /\ B = <<>> /\ V_nn = Zero

\* lines 37-45
DefAlpha == Stmt("alpha", "coeff", {}, {"alpha"}) /\ SameGeometry

\* line 52
DefCoeff == Stmt("coeff", "n_prim", {"alpha"}, {"coeff"}) /\ SameGeometry

\* line 54
DefNPrim == Stmt("n_prim", "bohr", {"alpha"}, {"n_prim"}) /\ SameGeometry

\* lines 58-69
DefBohr == Stmt("bohr", "R_bohr", {}, {"bohr_from_Vnn"}) /\ SameGeometry

\* lines 72-74
DefRBohr ==
    /\ Stmt("R_bohr", "centers", {"bohr_from_Vnn"}, {"R_bohr"})
    /\ R_bohr' = RBohr
    /\ UNCHANGED <<A, B, V_nn>>

\* lines 77-78
DefCenters ==
    /\ Stmt("centers", "ao_integrals", {"R_bohr"}, {"A", "B"})
    /\ A' = <<Zero, Zero, Zero>>
    /\ B' = <<Zero, Zero, R_bohr>>
    /\ UNCHANGED <<R_bohr, V_nn>>

\* lines 151-155, one ao_eri call per pass
AoIntegrals ==
    /\ Pass("ao_integrals", Len(AoIntegralNames), "print_ao",
            {"coeff", "alpha", "n_prim", "A", "B"}, {AoIntegralNames[it + 1]})
    /\ SameGeometry

\* lines 157-165
PrintAoIntegrals ==
    /\ Stmt("print_ao", "S_AB_init",
            {AoIntegralNames[i] : i \in 1..Len(AoIntegralNames)}, {})
    /\ SameGeometry

\* line 171
OverlapInit == Stmt("S_AB_init", "S_AB_add", {}, {"S_AB"}) /\ SameGeometry

\* lines 172-174: S_AB += ..., one (i, j) per pass
OverlapAdd ==
    /\ Pass("S_AB_add", n_prim * n_prim, "norms",
            {"n_prim", "coeff", "alpha", "A", "B"}, {"S_AB"})
    /\ SameGeometry

\* the norms taken while S_AB is still being summed
Norms_inside_loop ==
    /\ pc = "S_AB_add"
    /\ pc' = "C"
    /\ UNCHANGED <<it, jt>>
    /\ Track({"S_AB"}, {"norm_g", "norm_u"})
    /\ SameGeometry

\* lines 176-185
Norms == Stmt("norms", "C", {"S_AB"}, {"norm_g", "norm_u"}) /\ SameGeometry

\* lines 194-195
BuildC == Stmt("C", "tensor_alloc", {"norm_g", "norm_u"}, {"C"}) /\ SameGeometry

\* lines 201-202
TensorAlloc ==
    /\ Stmt("tensor_alloc", "tensor_fill", {"A", "B"}, {"centers_list", "ao_eri_tensor"})
    /\ SameGeometry

\* lines 203-208, one element per pass
TensorFill ==
    /\ Pass("tensor_fill", n_ao * n_ao * n_ao * n_ao, "tensor_print",
            {"centers_list", "coeff", "alpha", "n_prim"}, {"ao_eri_tensor"})
    /\ SameGeometry

\* lines 210-218, one element per pass
TensorPrint ==
    /\ Pass("tensor_print", n_ao * n_ao * n_ao * n_ao, "mo_eri", {"ao_eri_tensor"}, {})
    /\ SameGeometry

\* line 221
MoTransform == Stmt("mo_eri", "mo_print", {"C", "ao_eri_tensor"}, {"mo_eri"}) /\ SameGeometry

\* lines 223-243, one element per pass
MoPrint ==
    /\ Pass("mo_print", n_ao * n_ao * n_ao * n_ao, "h_ao_alloc", {"mo_eri"}, {})
    /\ SameGeometry

\* line 265
HaoAlloc == Stmt("h_ao_alloc", "h_ao_T", {}, {"h_ao"}) /\ SameGeometry

\* lines 268-274: Ri, Rj and the kinetic sum T_ij, one primitive pair per pass
HaoKinetic ==
    /\ pc = "h_ao_T"
    /\ jt < n_prim * n_prim
    /\ IF jt + 1 = n_prim * n_prim THEN pc' = "h_ao_V" /\ jt' = 0
                                   ELSE pc' = "h_ao_T" /\ jt' = jt + 1
    /\ UNCHANGED it
    /\ Track({"centers_list", "n_prim", "coeff", "alpha"}, {})
    /\ SameGeometry

\* lines 276-282: the nuclear attraction sum V_ij, one primitive pair per pass
HaoNuclear ==
    /\ pc = "h_ao_V"
    /\ jt < n_prim * n_prim
    /\ IF jt + 1 = n_prim * n_prim THEN pc' = "h_ao_set" /\ jt' = 0
                                   ELSE pc' = "h_ao_V" /\ jt' = jt + 1
    /\ UNCHANGED it
    /\ Track({"n_prim", "coeff", "alpha", "A", "B"}, {})
    /\ SameGeometry

\* line 283: h_ao[i, j] = T_ij + V_ij, then the (i, j) loop goes round
HaoSet ==
    /\ pc = "h_ao_set"
    /\ IF it + 1 = n_ao * n_ao THEN pc' = "h_mo" /\ it' = 0
                               ELSE pc' = "h_ao_T" /\ it' = it + 1
    /\ UNCHANGED jt
    /\ Track({}, {"h_ao"})
    /\ SameGeometry

\* line 286
HmoTransform == Stmt("h_mo", "h_mo_print", {"C", "h_ao"}, {"h_mo"}) /\ SameGeometry

\* lines 288-291
HmoPrint == Stmt("h_mo_print", "V_nn", {"h_mo"}, {}) /\ SameGeometry

\* lines 294-295
NuclearRepulsion ==
    /\ Stmt("V_nn", "E_HF", {"R_bohr"}, {"V_nn"})
    /\ V_nn' = BigQDiv(BigOne, R_bohr)
    /\ UNCHANGED <<R_bohr, A, B>>

\* lines 298-301
EnergyHF ==
    /\ Stmt("E_HF", "E_FCI", {"h_mo", "mo_eri", "V_nn"}, {"E_HF_elec", "E_HF_total"})
    /\ SameGeometry

\* lines 304-318
EnergyFCI ==
    /\ Stmt("E_FCI", "done", {"E_HF_elec", "h_mo", "mo_eri", "V_nn"}, FciNames)
    /\ SameGeometry

Next ==
    \/ DefAlpha \/ DefCoeff \/ DefNPrim \/ DefBohr \/ DefRBohr \/ DefCenters
    \/ AoIntegrals \/ PrintAoIntegrals \/ OverlapInit \/ OverlapAdd \/ Norms
    \/ BuildC \/ TensorAlloc \/ TensorFill \/ TensorPrint \/ MoTransform
    \/ MoPrint \/ HaoAlloc \/ HaoKinetic \/ HaoNuclear \/ HaoSet
    \/ HmoTransform \/ HmoPrint \/ NuclearRepulsion \/ EnergyHF \/ EnergyFCI

Spec == Init /\ [][Next]_vars

\* the bond length of the script's header, and the width of "approximately"
R_documented == Decimal(<<4011, 1>>, 1)
ApproxTol    == Decimal(<<10>>, 1)

\* C4 (as claimed): the internuclear distance the engine uses, R_bohr, the
\* z-coordinate of B and the R of V_nn = 1/R, is approximately 1.4011.
C4_BondLength ==
    /\ Complete("R_bohr") =>
           /\ BigQLeq(R_bohr, BigQAdd(R_documented, ApproxTol))
           /\ BigQLeq(R_documented, BigQAdd(R_bohr, ApproxTol))
    /\ Complete("B") => B[3] = R_bohr
    /\ Complete("V_nn") => V_nn = BigQDiv(BigOne, R_bohr)

\* C7: a step reads only results that are complete, and a result that a later
\* statement group has read is never assigned again.
C7_ForwardFlow ==
    [][ /\ \A x \in lastReads' : Complete(x)
        /\ \A x \in readers : wcount'[x] = wcount[x] ]_vars

\* the run has ended with every result computed once and the loop-built ones read
C7_Witness ==
    /\ pc = "done"
    /\ \A x \in Names : Complete(x)
    /\ {"coeff", "S_AB", "C", "ao_eri_tensor", "mo_eri", "h_ao", "h_mo", "V_nn",
        "E_HF_elec"} \subseteq readers

(***************************************************************************)
(* The integral engine, symbolically.  A primitive integral is a term      *)
(*   [k, fac, den, root, e, F]                                             *)
(* standing for  fac * pi^x / (den * sqrt(root)) * exp(-e) * F  where x is *)
(* fixed by the kind k and F is a boys_F0 result (the kinetic kind stands  *)
(* for fac * (3 - 2 * e) * (pi / den)^1.5 * exp(-e)).  Squared lengths, and*)
(* so e, are in units of 10^(-2 * len_exp).  A contracted integral         *)
(* is a pair of bags [pos, neg] of keys [g, u, c, t]: the sum of the keys  *)
(* in pos minus the sum of those in neg, a key being the term t times the  *)
(* product c of contraction coefficients times norm_g^g * norm_u^u.        *)
(***************************************************************************)
MaxAlpha == 4     \* exponents are drawn from 1/2, 1, ..., MaxAlpha/2
MaxR     == 2     \* internuclear distances are drawn from 1..MaxR
TinyExp  == 9     \* lengths are in bohr or in units of 10^-TinyExp bohr
MaxMant  == 9     \* boys_F0 is called directly with |T| = 0..MaxMant tolerance units

TolExp == 15      \* the tolerance 1e-15 of boys_F0

RECURSIVE DivPow10(_, _)
DivPow10(x, k) == IF k = 0 THEN x ELSE DivPow10(x \div 10, k - 1)

RECURSIVE Pow10(_)
Pow10(k) == IF k = 0 THEN 1 ELSE 10 * Pow10(k - 1)

\* an argument of boys_F0: the number (n / d) * 10^-x
Scaled(T, x) == [n |-> T.n, d |-> T.d, x |-> x]

\* T < 1e-15, that is T.n * 10^15 < T.d * 10^T.x
BelowTol(T) ==
    \/ T.n <= 0
    \/ IF T.x >= TolExp THEN T.n < T.d * Pow10(T.x - TolExp)
                        ELSE T.n <= DivPow10(T.d - 1, TolExp - T.x)

\* boys_F0: 1.0 below the tolerance (lim), else 0.5*sqrt(pi/T)*erf(sqrt(T)),
\* whose divisor T is kept
boys_F0_unguarded(T) == [lim |-> FALSE, T |-> T]

boys_F0(T) ==
    IF BelowTol(T) THEN [lim |-> TRUE, T |-> Scaled(Zero, 0)] ELSE [lim |-> FALSE, T |-> T]

NoBoys == [lim |-> TRUE, T |-> Scaled(Zero, 0)]

VAdd(v, w)   == [i \in 1..3 |-> RatAdd(v[i], w[i])]
VSub(v, w)   == [i \in 1..3 |-> RatSub(v[i], w[i])]
VScale(c, v) == [i \in 1..3 |-> RatMul(c, v[i])]
\* np.sum(v**2)
SumSq(v) == RatAdd(RatMul(v[1], v[1]), RatAdd(RatMul(v[2], v[2]), RatMul(v[3], v[3])))

\* (a * Ra + b * Rb) / (a + b)
Centroid(a, Ra, b, Rb) == VScale(RatInv(RatAdd(a, b)), VAdd(VScale(a, Ra), VScale(b, Rb)))

\* overlap_1d
overlap_1d(a, b, Ra, Rb) ==
    LET gamma == RatAdd(a, b)
    IN  [sg |-> 1,
         t  |-> [k |-> "overlap", fac |-> One, den |-> gamma, root |-> One,
                 e |-> RatMul(RatDiv(RatMul(a, b), gamma), SumSq(VSub(Ra, Rb))),
                 F |-> NoBoys]]

\* the argument eri_ssss passes to boys_F0 (lines 103-113)
EriT(a, b, c, d, Ra, Rb, Rc, Rd) ==
    LET p    == RatAdd(a, b)
        q    == RatAdd(c, d)
        Rp   == Centroid(a, Ra, b, Rb)
        Rq   == Centroid(c, Rc, d, Rd)
        RPQ2 == SumSq(VSub(Rp, Rq))
        alpha_pq == RatDiv(RatMul(p, q), RatAdd(p, q))
    IN  Scaled(RatMul(alpha_pq, RPQ2), 2 * len_exp)

\* eri_ssss with RAB2 in place of RCD2 in the exponential
eri_ssss_RAB2_twice(a, b, c, d, Ra, Rb, Rc, Rd) ==
    LET p    == RatAdd(a, b)
        q    == RatAdd(c, d)
        RAB2 == SumSq(VSub(Ra, Rb))
    IN  [sg |-> 1,
         t  |-> [k |-> "eri", fac |-> Two, den |-> RatMul(p, q), root |-> RatAdd(p, q),
                 e |-> RatAdd(RatMul(RatDiv(RatMul(a, b), p), RAB2),
                              RatMul(RatDiv(RatMul(c, d), q), RAB2)),
                 F |-> boys_F0(EriT(a, b, c, d, Ra, Rb, Rc, Rd))]]

\* eri_ssss
eri_ssss(a, b, c, d, Ra, Rb, Rc, Rd) ==
    LET p    == RatAdd(a, b)
        q    == RatAdd(c, d)
        RAB2 == SumSq(VSub(Ra, Rb))
        RCD2 == SumSq(VSub(Rc, Rd))
    IN  [sg |-> 1,
         t  |-> [k |-> "eri", fac |-> Two, den |-> RatMul(p, q), root |-> RatAdd(p, q),
                 e |-> RatAdd(RatMul(RatDiv(RatMul(a, b), p), RAB2),
                              RatMul(RatDiv(RatMul(c, d), q), RCD2)),
                 F |-> boys_F0(EriT(a, b, c, d, Ra, Rb, Rc, Rd))]]

\* kinetic_1d
kinetic_1d(a, b, Ra, Rb) ==
    LET p    == RatAdd(a, b)
        mu   == RatDiv(RatMul(a, b), p)
        RAB2 == SumSq(VSub(Ra, Rb))
    IN  [sg |-> 1,
         t  |-> [k |-> "kinetic", fac |-> mu, den |-> p, root |-> One,
                 e |-> RatMul(mu, RAB2), F |-> NoBoys]]

\* the argument nuclear_attraction passes to boys_F0 (lines 257-261)
NucT(a, b, Ra, Rb, Rc) ==
    LET p    == RatAdd(a, b)
        Rp   == Centroid(a, Ra, b, Rb)
        RPC2 == SumSq(VSub(Rp, Rc))
    IN  Scaled(RatMul(p, RPC2), 2 * len_exp)

\* nuclear_attraction
nuclear_attraction(a, b, Ra, Rb, Rc, Z) ==
    LET p    == RatAdd(a, b)
        RAB2 == SumSq(VSub(Ra, Rb))
    IN  [sg |-> -1,
         t  |-> [k |-> "nuclear", fac |-> RatMul(Z, Two), den |-> p, root |-> One,
                 e |-> RatMul(RatDiv(RatMul(a, b), p), RAB2),
                 F |-> boys_F0(NucT(a, b, Ra, Rb, Rc))]]

(***************************************************************************)
(* Sums of symbolic values.                                                *)
(***************************************************************************)
SymZero == [pos |-> EmptyBag, neg |-> EmptyBag]

SymAdd(x, y) == [pos |-> x.pos (+) y.pos, neg |-> x.neg (+) y.neg]

\* x = y as real numbers
SymEq(x, y) == (x.pos (+) y.neg) = (y.pos (+) x.neg)

SymIsZero(x) == x.pos = x.neg

\* a coefficient g^a * u^b with sign: an entry of C, or a product of entries
Coef(sg, a, b) == [sg |-> sg, g |-> a, u |-> b]

CoefMul(x, y) == Coef(x.sg * y.sg, x.g + y.g, x.u + y.u)
CoefNeg(x)    == Coef(-x.sg, x.g, x.u)

ShiftBag(bag, c) ==
    [kk \in {[k EXCEPT !.g = @ + c.g, !.u = @ + c.u] : k \in DOMAIN bag} |->
        bag[[kk EXCEPT !.g = @ - c.g, !.u = @ - c.u]]]

\* c * v for a coefficient c
SymScale(c, v) ==
    IF c.sg = 1 THEN [pos |-> ShiftBag(v.pos, c), neg |-> ShiftBag(v.neg, c)]
                ELSE [pos |-> ShiftBag(v.neg, c), neg |-> ShiftBag(v.pos, c)]

\* f[x] + f[x + 1] + ... + f[n - 1] for symbolic values, summed by halves
RECURSIVE SymSum(_, _, _)
SymSum(f, x, n) ==
    IF x >= n THEN SymZero
    ELSE IF x + 1 = n THEN f[x]
    ELSE LET mid == (x + n) \div 2
         IN  SymAdd(SymSum(f, x, mid), SymSum(f, mid, n))

\* the same sum for rationals
RECURSIVE RatSum(_, _, _)
RatSum(f, x, n) ==
    IF x >= n THEN Zero
    ELSE IF x + 1 = n THEN f[x]
    ELSE LET mid == (x + n) \div 2
         IN  RatAdd(RatSum(f, x, mid), RatSum(f, mid, n))

\* coeff[i] * coeff[j] * ... for a tuple of primitive indices
CoeffProduct(q) == [m \in 1..n_prim |-> Cardinality({i \in DOMAIN q : q[i] = m})]

\* coefficient product times a primitive integral
Weighted(q, prim) ==
    LET key == [g |-> 0, u |-> 0, c |-> CoeffProduct(q), t |-> prim.t]
    IN  IF prim.sg = 1 THEN [pos |-> SetToBag({key}), neg |-> EmptyBag]
                       ELSE [pos |-> EmptyBag, neg |-> SetToBag({key})]

\* the x-th index tuple of the loops over range(n_prim)
PrimQuad(x) == << (x \div (n_prim * n_prim * n_prim)) + 1,
                  ((x \div (n_prim * n_prim)) % n_prim) + 1,
                  ((x \div n_prim) % n_prim) + 1,
                  (x % n_prim) + 1 >>
PrimPair(x) == << (x \div n_prim) + 1, (x % n_prim) + 1 >>

\* ao_eri(centers): the contraction over all primitive quadruples
ao_eri(al, centers) ==
    SymSum([x \in 0..(n_prim * n_prim * n_prim * n_prim - 1) |->
               LET q == PrimQuad(x)
               IN  Weighted(q, eri_ssss(al[q[1]], al[q[2]], al[q[3]], al[q[4]],
                                        centers[1], centers[2], centers[3], centers[4]))],
           0, n_prim * n_prim * n_prim * n_prim)

\* the boys_F0 calls ao_eri(centers) makes
AoEriBoysCalls(al, centers) ==
    { LET q == PrimQuad(x)
          T == EriT(al[q[1]], al[q[2]], al[q[3]], al[q[4]],
                    centers[1], centers[2], centers[3], centers[4])
      IN  [T |-> T, F |-> boys_F0(T)] : x \in 0..(n_prim * n_prim * n_prim * n_prim - 1) }

\* lines 271-283: T_ij + V_ij
HAoElement(al, Ri, Rj, Ra, Rb) ==
    LET pairs == 0..(n_prim * n_prim - 1)
        T_ij == SymSum([x \in pairs |->
                           LET q == PrimPair(x)
                           IN  Weighted(q, kinetic_1d(al[q[1]], al[q[2]], Ri, Rj))],
                       0, n_prim * n_prim)
        V_ij == SymSum([x \in pairs |->
                           LET q == PrimPair(x)
                           IN  SymAdd(Weighted(q, nuclear_attraction(al[q[1]], al[q[2]], Ri, Rj, Ra, One)),
                                      Weighted(q, nuclear_attraction(al[q[1]], al[q[2]], Ri, Rj, Rb, One)))],
                       0, n_prim * n_prim)
    IN  SymAdd(T_ij, V_ij)

\* the boys_F0 calls of one h_ao element
HAoBoysCalls(al, Ri, Rj, Ra, Rb) ==
    { LET q == PrimPair(x[1])
          T == NucT(al[q[1]], al[q[2]], Ri, Rj, x[2])
      IN  [T |-> T, F |-> boys_F0(T)] : x \in (0..(n_prim * n_prim - 1)) \X {Ra, Rb} }

(***************************************************************************)
(* AO -> MO transformation of symbolic values; the entries of C are        *)
(* coefficients Coef.                                                      *)
(***************************************************************************)
\* C with the sign of the antibonding row dropped
CMatrix_no_minus(ng, nu, minus_nu) ==
    (0 :> (0 :> ng @@ 1 :> nu)) @@ (1 :> (0 :> ng @@ 1 :> nu))

\* C = [[norm_g, norm_u], [norm_g, -norm_u]]
CMatrix(ng, nu, minus_nu) ==
    (0 :> (0 :> ng @@ 1 :> nu)) @@ (1 :> (0 :> ng @@ 1 :> minus_nu))

\* the x-th AO index tuple
AoQuad(x) == << x \div 8, (x \div 4) % 2, (x \div 2) % 2, x % 2 >>

\* the einsum with the AO tensor read in the order 'mlno'
SymTransformEri_mlno(Cm, eri) ==
    [t \in Idx4 |->
        SymSum([x \in 0..15 |->
                   LET a == AoQuad(x)
                   IN  SymScale(CoefMul(CoefMul(Cm[a[1]][t[1]], Cm[a[2]][t[2]]),
                                        CoefMul(Cm[a[3]][t[3]], Cm[a[4]][t[4]])),
                                eri[<<a[1], a[3], a[2], a[4]>>])],
               0, 16)]

\* np.einsum('mp,nq,lr,os,mnlo->pqrs', C, C, C, C, ao_eri_tensor)
SymTransformEri(Cm, eri) ==
    [t \in Idx4 |->
        SymSum([x \in 0..15 |->
                   LET a == AoQuad(x)
                   IN  SymScale(CoefMul(CoefMul(Cm[a[1]][t[1]], Cm[a[2]][t[2]]),
                                        CoefMul(Cm[a[3]][t[3]], Cm[a[4]][t[4]])),
                                eri[a])],
               0, 16)]

\* C.T @ h_ao @ C
SymTransformH(Cm, h) ==
    LET X == [p \in Idx |-> [n \in Idx |->
                 SymSum([m \in Idx |-> SymScale(Cm[m][p], h[m][n])], 0, 2)]]
    IN  [p \in Idx |-> [q \in Idx |->
            SymSum([n \in Idx |-> SymScale(Cm[n][q], X[p][n])], 0, 2)]]

(***************************************************************************)
(* SpecAO: the engine from basis and geometry to MO integrals.             *)
(***************************************************************************)
AlphaValues == {Rat(k, 2) : k \in 1..MaxAlpha}

\* exponent tables: n_prim distinct exponents, largest first
AlphaTables ==
    {al \in [1..n_prim -> AlphaValues] :
        \A i \in 1..(n_prim - 1) : RatLess(al[i + 1], al[i])}

Origin == <<Zero, Zero, Zero>>

ZeroTensor == [t \in Idx4 |-> SymZero]
ZeroMatrix == [i \in Idx |-> [j \in Idx |-> SymZero]]

\* lines 171-174: the contracted overlap of the two centers
OverlapSum(al, Ra, Rb) ==
    SymSum([x \in 0..(n_prim * n_prim - 1) |->
               LET q == PrimPair(x)
               IN  Weighted(q, overlap_1d(al[q[1]], al[q[2]], Ra, Rb))],
           0, n_prim * n_prim)

\* the center quadruples of lines 151-155
NamedCenters(Ra, Rb) ==
    [eri_AAAA |-> <<Ra, Ra, Ra, Ra>>, eri_BBBB |-> <<Rb, Rb, Rb, Rb>>,
     eri_AABB |-> <<Ra, Ra, Rb, Rb>>, eri_ABAB |-> <<Ra, Rb, Ra, Rb>>,
     eri_ABBA |-> <<Ra, Rb, Rb, Ra>>]

\* Basis and geometry (lines 37-78).  The distances are whole numbers of
\* bohr; with the contraction coefficients of line 38 every table and
\* distance drawn here has 0 < S_AB < 1, so lines 181-182 take the square
\* roots of positive numbers.
InitAO ==
    /\ InjIdle /\ MainIdle /\ FciIdle
    /\ pc = "idle" /\ it = 0 /\ jt = 0 /\ wcount = <<>> /\ readers = {} /\ lastReads = {}
    /\ alpha \in AlphaTables
    /\ \E R \in 1..MaxR : R_bohr = Int2Rat(R)
    /\ A = Origin
    /\ B = <<Zero, Zero, R_bohr>>
    /\ centers_list = <<>>
    /\ len_exp = 0
    /\ eri_named = <<>>
    /\ S_AB = <<>> /\ norm_g = <<>> /\ norm_u = <<>>
    /\ eri_back = <<>> /\ h_back = <<>> /\ rpc = "idle"
    /\ ao_eri_tensor = <<>>
    /\ h_ao = <<>>
    /\ C = <<>>
    /\ h_mo = <<>>
    /\ mo_eri = <<>>
    /\ boys_log = {}
    /\ apc = "named"
    /\ ait = 0

\* lines 151-155
AoNamed ==
    /\ apc = "named"
    /\ LET cs == NamedCenters(A, B)
       IN  /\ eri_named' = [x \in DOMAIN cs |-> ao_eri(alpha, cs[x])]
           /\ boys_log' = UNION {AoEriBoysCalls(alpha, cs[x]) : x \in DOMAIN cs}
    /\ apc' = "S_AB"
    /\ UNCHANGED <<centers_list, S_AB, norm_g, norm_u, C, ao_eri_tensor, h_ao, ait, moOutVars, notAo>>

\* lines 171-174
AoOverlap ==
    /\ apc = "S_AB"
    /\ S_AB' = OverlapSum(alpha, A, B)
    /\ boys_log' = {}
    /\ apc' = "norms"
    /\ UNCHANGED <<centers_list, eri_named, norm_g, norm_u, C, ao_eri_tensor, h_ao, ait, moOutVars, notAo>>

\* lines 181-182
AoNorms ==
    /\ apc = "norms"
    /\ norm_g' = Coef(1, 1, 0)   \* stands for 1 / sqrt(2 + 2 * S_AB)
    /\ norm_u' = Coef(1, 0, 1)   \* stands for 1 / sqrt(2 - 2 * S_AB)
    /\ apc' = "C"
    /\ UNCHANGED <<centers_list, eri_named, S_AB, C, ao_eri_tensor, h_ao, boys_log, ait, moOutVars, notAo>>

\* lines 194-202
AoBuildC ==
    /\ apc = "C"
    /\ C' = CMatrix(norm_g, norm_u, CoefNeg(norm_u))
    /\ centers_list' = (0 :> A) @@ (1 :> B)
    /\ ao_eri_tensor' = ZeroTensor
    /\ apc' = "tensor"
    /\ UNCHANGED <<eri_named, S_AB, norm_g, norm_u, h_ao, boys_log, ait, moOutVars, notAo>>

\* lines 203-208: one element of ao_eri_tensor
AoFill ==
    /\ apc = "tensor"
    /\ LET t  == AoQuad(ait)
           cs == <<centers_list[t[1]], centers_list[t[2]], centers_list[t[3]], centers_list[t[4]]>>
       IN  /\ ao_eri_tensor' = [ao_eri_tensor EXCEPT ![t] = ao_eri(alpha, cs)]
           /\ boys_log' = AoEriBoysCalls(alpha, cs)
    /\ IF ait + 1 = 16 THEN apc' = "mo_eri" /\ ait' = 0 ELSE apc' = apc /\ ait' = ait + 1
    /\ UNCHANGED <<centers_list, eri_named, S_AB, norm_g, norm_u, h_ao, C, moOutVars, notAo>>

\* lines 221 and 265
AoTransform ==
    /\ apc = "mo_eri"
    /\ mo_eri' = SymTransformEri(C, ao_eri_tensor)
    /\ h_ao' = ZeroMatrix
    /\ apc' = "h_ao"
    /\ boys_log' = {}
    /\ UNCHANGED <<centers_list, eri_named, S_AB, norm_g, norm_u, ao_eri_tensor, C, ait, h_mo, notAo>>

\* lines 266-283: one element of h_ao
HFill ==
    /\ apc = "h_ao"
    /\ LET i == ait \div 2
           j == ait % 2
       IN  /\ h_ao' = [h_ao EXCEPT ![i][j] =
                          HAoElement(alpha, centers_list[i], centers_list[j],
                                     centers_list[0], centers_list[1])]
           /\ boys_log' = HAoBoysCalls(alpha, centers_list[i], centers_list[j],
                                       centers_list[0], centers_list[1])
    /\ IF ait + 1 = 4 THEN apc' = "h_mo" /\ ait' = 0 ELSE apc' = apc /\ ait' = ait + 1
    /\ UNCHANGED <<centers_list, eri_named, S_AB, norm_g, norm_u, ao_eri_tensor, C, moOutVars, notAo>>

\* line 286
HTransform ==
    /\ apc = "h_mo"
    /\ h_mo' = SymTransformH(C, h_ao)
    /\ apc' = "done"
    /\ boys_log' = {}
    /\ UNCHANGED <<centers_list, eri_named, S_AB, norm_g, norm_u, ao_eri_tensor, h_ao, C, ait, mo_eri, notAo>>

NextAO ==
    \/ AoNamed \/ AoOverlap \/ AoNorms \/ AoBuildC \/ AoFill \/ AoTransform
    \/ HFill \/ HTransform

SpecAO == InitAO /\ [][NextAO]_vars

TensorFilled == apc \in {"mo_eri", "h_ao", "h_mo", "done"}
MoEriDone    == apc \in {"h_ao", "h_mo", "done"}

(***************************************************************************)
(* C2: once ao_eri_tensor is filled from ao_eri over all 16 index          *)
(* quadruples, (mu nu|lam sig) = (nu mu|lam sig) = (mu nu|sig lam)         *)
(* = (lam sig|mu nu) for every quadruple.                                  *)
(***************************************************************************)
C2_EightFold ==
    TensorFilled =>
        \A t \in Idx4 :
            /\ SymEq(ao_eri_tensor[t], ao_eri_tensor[<<t[2], t[1], t[3], t[4]>>])
            /\ SymEq(ao_eri_tensor[t], ao_eri_tensor[<<t[1], t[2], t[4], t[3]>>])
            /\ SymEq(ao_eri_tensor[t], ao_eri_tensor[<<t[3], t[4], t[1], t[2]>>])

\* the tensor is filled, and two of its elements differ
C2_Witness ==
    /\ TensorFilled
    /\ ~SymEq(ao_eri_tensor[<<0, 0, 0, 1>>], ao_eri_tensor[<<0, 1, 0, 1>>])
    /\ ~SymIsZero(ao_eri_tensor[<<0, 1, 1, 0>>])

(***************************************************************************)
(* C1: the transformed tensor has mo_eri[0,1,0,1] = mo_eri[0,1,1,0].       *)
(***************************************************************************)
C1_ExchangeSymmetry ==
    MoEriDone => SymEq(mo_eri[<<0, 1, 0, 1>>], mo_eri[<<0, 1, 1, 0>>])

\* mo_eri is computed; K is a sum that does not cancel term by term and is
\* not the Coulomb element mo_eri[0,0,1,1]
C1_Witness ==
    /\ MoEriDone
    /\ ~SymIsZero(mo_eri[<<0, 1, 0, 1>>])
    /\ ~SymEq(mo_eri[<<0, 1, 0, 1>>], mo_eri[<<0, 0, 1, 1>>])

(***************************************************************************)
(* boys_F0 as a function: it is called by eri_ssss, by nuclear_attraction  *)
(* and directly, on arguments on both sides of the tolerance.  With        *)
(* lengths in bohr every positive T of the integrals is far above 1e-15;   *)
(* with lengths in units of 10^-TinyExp bohr every T of the integrals is   *)
(* far below it.                                                           *)
(***************************************************************************)
BoysArgs ==
    {Scaled(Int2Rat(n), x) : n \in (0 - MaxMant)..MaxMant,
                             x \in {0, TolExp - 1, TolExp, TolExp + 1}}

InitBoys ==
    /\ InjIdle /\ MainIdle /\ FciIdle /\ RunIdle /\ RoundIdle /\ MoOutIdle
    /\ alpha \in AlphaTables
    /\ \E R \in 1..MaxR : centers_list = (0 :> Origin) @@ (1 :> <<Zero, Zero, Int2Rat(R)>>)
    /\ len_exp \in {0, TinyExp}
    /\ eri_named = <<>>
    /\ ao_eri_tensor = <<>>
    /\ h_ao = <<>>
    /\ C = <<>>
    /\ boys_log = {}
    /\ apc = "boys"
    /\ ait = 0

boysFrame == <<injVars, mainVars, fciVars, runVars, roundVars, moOutVars, alpha,
               centers_list, len_exp, eri_named, ao_eri_tensor, h_ao, C, ait>>

\* eri_ssss, lines 96-119
CallEri ==
    /\ apc = "boys"
    /\ \E q \in (1..n_prim) \X (1..n_prim) \X (1..n_prim) \X (1..n_prim), t \in Idx4 :
          LET T == EriT(alpha[q[1]], alpha[q[2]], alpha[q[3]], alpha[q[4]],
                        centers_list[t[1]], centers_list[t[2]],
                        centers_list[t[3]], centers_list[t[4]])
          IN  boys_log' = {[by |-> "eri_ssss", T |-> T, F |-> boys_F0(T)]}
    /\ apc' = "called"
    /\ UNCHANGED boysFrame

\* nuclear_attraction, lines 255-262
CallNuc ==
    /\ apc = "boys"
    /\ \E q \in (1..n_prim) \X (1..n_prim), i \in Idx, j \in Idx, c \in Idx :
          LET T == NucT(alpha[q[1]], alpha[q[2]], centers_list[i], centers_list[j],
                        centers_list[c])
          IN  boys_log' = {[by |-> "nuclear_attraction", T |-> T, F |-> boys_F0(T)]}
    /\ apc' = "called"
    /\ UNCHANGED boysFrame

\* boys_F0 on its own
CallBoys ==
    /\ apc = "boys"
    /\ \E T \in BoysArgs : boys_log' = {[by |-> "boys_F0", T |-> T, F |-> boys_F0(T)]}
    /\ apc' = "called"
    /\ UNCHANGED boysFrame

NextBoys == CallEri \/ CallNuc \/ CallBoys

SpecBoys == InitBoys /\ [][NextBoys]_vars

(***************************************************************************)
(* C5: boys_F0 never divides by zero.  In every call made by eri_ssss and  *)
(* nuclear_attraction T >= 0; for T < 1e-15 the result is the limit 1.0    *)
(* and no quotient is formed; for T >= 1e-15 the quotient's divisor is T   *)
(* and T > 0.                                                              *)
(***************************************************************************)
C5_BoysNoZeroDivide ==
    \A call \in boys_log :
        /\ call.T.d > 0
        /\ call.by \in {"eri_ssss", "nuclear_attraction"} => call.T.n >= 0
        /\ BelowTol(call.T) => call.F.lim
        /\ ~BelowTol(call.T) => ~call.F.lim /\ call.F.T = call.T /\ call.F.T.n > 0

\* eri_ssss calls boys_F0 with a positive T below the tolerance and gets
\* the limit
C5_Witness ==
    \E call \in boys_log :
        call.by = "eri_ssss" /\ call.T.n > 0 /\ BelowTol(call.T) /\ call.F.lim

(***************************************************************************)
(* C8: h_ao[0,0] = h_ao[1,1] and h_ao[0,1] = h_ao[1,0], and                *)
(* h_mo[0,1] = h_mo[1,0] = 0.                                              *)
(***************************************************************************)
C8_HmoOffDiagonalZero ==
    apc = "done" =>
        /\ SymEq(h_ao[0][0], h_ao[1][1])
        /\ SymEq(h_ao[0][1], h_ao[1][0])
        /\ SymIsZero(h_mo[0][1])
        /\ SymIsZero(h_mo[1][0])

\* h_mo is computed from an h_ao none of whose elements cancels, and its
\* diagonal does not vanish
C8_Witness ==
    /\ apc = "done"
    /\ \A i \in Idx : \A j \in Idx : ~SymIsZero(h_ao[i][j])
    /\ ~SymIsZero(h_mo[0][0])
    /\ ~SymIsZero(h_mo[1][1])

(***************************************************************************)
(* SpecMO: the AO -> MO transformation over rational numbers, followed by  *)
(* the transformation back with the inverse of C.  S_AB is drawn from the  *)
(* overlaps in (0, 1) for which 2 + 2 * S_AB and 2 - 2 * S_AB are squares  *)
(* of rationals, so that norm_g and norm_u are exact.                      *)
(***************************************************************************)
MaxGen == 3     \* overlaps come from Pythagorean triples with generators <= MaxGen
MaxVal == 1     \* integrals are drawn from -1..MaxVal

IntSqrt(k) == CHOOSE r \in 0..k : r * r = k

\* np.sqrt, on squares of rationals
RatSqrt(x) == [n |-> IntSqrt(x.n), d |-> IntSqrt(x.d)]

\* S with 2 + 2 * S = (2 * leg / hyp)^2 for the longer leg of the triple (m, n)
OverlapOf(m, n) ==
    LET a   == m * m - n * n
        b   == 2 * m * n
        hyp == m * m + n * n
        leg == IF a > b THEN a ELSE b
    IN  Rat(2 * leg * leg - hyp * hyp, hyp * hyp)

OverlapValues == {OverlapOf(m, n) : m \in 2..MaxGen, n \in 1..(MaxGen - 1)} \ {One}

Values == {Int2Rat(v) : v \in (-1..MaxVal) \ {0}}

\* AO tensors and matrices with one non-zero element
EriFamily == {[x \in Idx4 |-> IF x = t THEN v ELSE Zero] : t \in Idx4, v \in Values}
HFamily ==
    {[i \in Idx |-> [j \in Idx |-> IF <<i, j>> = t THEN v ELSE Zero]] :
        t \in Idx \X Idx, v \in Values}

\* the einsum with 'or' written for 'os'
RatTransformEri_index_typo(Cm, eri) ==
    [t \in Idx4 |->
        RatSum([x \in 0..15 |->
                   LET a == AoQuad(x)
                   IN  RatMul(RatMul(RatMul(Cm[a[1]][t[1]], Cm[a[2]][t[2]]),
                                     RatMul(Cm[a[3]][t[3]], Cm[a[4]][t[3]])),
                              eri[a])],
               0, 16)]

\* np.einsum('mp,nq,lr,os,mnlo->pqrs', C, C, C, C, ao_eri_tensor)
RatTransformEri(Cm, eri) ==
    [t \in Idx4 |->
        RatSum([x \in 0..15 |->
                   LET a == AoQuad(x)
                   IN  RatMul(RatMul(RatMul(Cm[a[1]][t[1]], Cm[a[2]][t[2]]),
                                     RatMul(Cm[a[3]][t[3]], Cm[a[4]][t[4]])),
                              eri[a])],
               0, 16)]

\* C.T @ h_ao @ C
RatTransformH(Cm, h) ==
    LET X == [p \in Idx |-> [n \in Idx |->
                 RatSum([m \in Idx |-> RatMul(Cm[m][p], h[m][n])], 0, 2)]]
    IN  [p \in Idx |-> [q \in Idx |->
            RatSum([n \in Idx |-> RatMul(Cm[n][q], X[p][n])], 0, 2)]]

Det(Cm) == RatSub(RatMul(Cm[0][0], Cm[1][1]), RatMul(Cm[0][1], Cm[1][0]))

\* the inverse of a 2 x 2 matrix with Det # 0
MatInv(Cm) ==
    LET r == RatInv(Det(Cm))
    IN  (0 :> (0 :> RatMul(r, Cm[1][1]) @@ 1 :> RatNeg(RatMul(r, Cm[0][1]))))
        @@ (1 :> (0 :> RatNeg(RatMul(r, Cm[1][0])) @@ 1 :> RatMul(r, Cm[0][0])))

InitMO ==
    /\ InjIdle /\ MainIdle /\ FciIdle /\ RunIdle /\ AoRestIdle
    /\ S_AB \in OverlapValues
    /\ ao_eri_tensor \in EriFamily
    /\ h_ao \in HFamily
    /\ norm_g = <<>> /\ norm_u = <<>> /\ C = <<>>
    /\ h_mo = <<>> /\ mo_eri = <<>>
    /\ eri_back = <<>> /\ h_back = <<>>
    /\ rpc = "norms"

\* lines 181-182
MoNorms ==
    /\ rpc = "norms"
    /\ norm_g' = RatInv(RatSqrt(RatAdd(Two, RatMul(Two, S_AB))))
    /\ norm_u' = RatInv(RatSqrt(RatSub(Two, RatMul(Two, S_AB))))
    /\ rpc' = "C"
    /\ UNCHANGED <<S_AB, ao_eri_tensor, h_ao, C, moOutVars, eri_back, h_back, notRound>>

\* lines 194-195
MoBuildC ==
    /\ rpc = "C"
    /\ C' = CMatrix(norm_g, norm_u, RatNeg(norm_u))
    /\ rpc' = "mo_eri"
    /\ UNCHANGED <<S_AB, norm_g, norm_u, ao_eri_tensor, h_ao, moOutVars, eri_back, h_back, notRound>>

\* line 221
MoTransformEri ==
    /\ rpc = "mo_eri"
    /\ mo_eri' = RatTransformEri(C, ao_eri_tensor)
    /\ rpc' = "h_mo"
    /\ UNCHANGED <<S_AB, norm_g, norm_u, ao_eri_tensor, h_ao, C, h_mo, eri_back, h_back, notRound>>

\* line 286
MoTransformH ==
    /\ rpc = "h_mo"
    /\ h_mo' = RatTransformH(C, h_ao)
    /\ rpc' = "back"
    /\ UNCHANGED <<S_AB, norm_g, norm_u, ao_eri_tensor, h_ao, C, mo_eri, eri_back, h_back, notRound>>

\* the same two transforms with the inverse of C
MoBack ==
    /\ rpc = "back"
    /\ Det(C) # Zero
    /\ eri_back' = RatTransformEri(MatInv(C), mo_eri)
    /\ h_back' = RatTransformH(MatInv(C), h_mo)
    /\ rpc' = "done"
    /\ UNCHANGED <<S_AB, norm_g, norm_u, ao_eri_tensor, h_ao, C, moOutVars, notRound>>

NextMO == MoNorms \/ MoBuildC \/ MoTransformEri \/ MoTransformH \/ MoBack

SpecMO == InitMO /\ [][NextMO]_vars

(***************************************************************************)
(* C6: the C built from 0 < S_AB < 1 is invertible, and transforming       *)
(* mo_eri and h_mo with the inverse of C gives back all 16 elements of the *)
(* AO tensor and the matrix h_ao.                                          *)
(***************************************************************************)
C6_RoundTrip ==
    /\ rpc \in {"mo_eri", "h_mo", "back", "done"} =>
           /\ RatLess(Zero, S_AB) /\ RatLess(S_AB, One)
           /\ Det(C) # Zero
    /\ rpc = "done" =>
           /\ \A t \in Idx4 : eri_back[t] = ao_eri_tensor[t]
           /\ \A i \in Idx : \A j \in Idx : h_back[i][j] = h_ao[i][j]

\* the round trip is complete and the MO integrals differ from the AO ones
\* in every element
C6_Witness ==
    /\ rpc = "done"
    /\ \A t \in Idx4 : mo_eri[t] # ao_eri_tensor[t]
    /\ \A i \in Idx : \A j \in Idx : h_mo[i][j] # h_ao[i][j]
    /\ eri_back = ao_eri_tensor

====
